---- MODULE Spec2Model ----
(***************************************************************************)
(* IPExtractor (src/ipextract.py): scan of a folder of text files for IPv4 *)
(* addresses and subnets, subnet expansion, recovery of embedded addresses *)
(* from the invalid entries, and the writing of the sorted output.         *)
(*                                                                         *)
(* A text (a Python str) is a sequence of one-character strings, so that   *)
(* splitting, stripping, parsing, formatting and pattern matching are      *)
(* computed character by character as the code and its library do.         *)
(*                                                                         *)
(* A value that a definition uses more than once is handed to a local      *)
(* operator through Apply, so that it is computed once.                    *)
(***************************************************************************)
EXTENDS Integers, Sequences, FiniteSets, TLC

\* ------------------------------------------------------------------ bounds

\* Files of the folder one run iterates over.
MaxFiles == 2
\* Lines read in one run, over all its files.
MaxLines == 3
\* Lines of the output file an interrupted write loop is followed for.
MaxPartial == 2
\* Lines read in one run of the scan of subnets.
MaxSubnetLines == 2
\* Calls of process_invalid_entries where it is called again after the run's.
MaxPasses == 2

\* ------------------------------------------------------------ characters

Digits == <<"0", "1", "2", "3", "4", "5", "6", "7", "8", "9">>

Letters ==
  {"a", "b", "c", "d", "e", "f", "g", "h", "i", "j", "k", "l", "m", "n", "o",
   "p", "q", "r", "s", "t", "u", "v", "w", "x", "y", "z"}

\* str.strip() with no argument removes these.
Whitespace == {" ", "\n", "\t"}

IsDigit(c) == \E i \in 1..10 : Digits[i] = c

DigitVal(c) == (CHOOSE i \in 1..10 : Digits[i] = c) - 1

\* ipaddress._BaseV6._HEX_DIGITS, restricted to the lower-case letters.
IsHexDigit(c) == IsDigit(c) \/ c \in {"a", "b", "c", "d", "e", "f"}

\* The regular expression's \w, which decides \b.
IsWordChar(c) == IsDigit(c) \/ c \in Letters \/ c = "_"

Min(S) == CHOOSE x \in S : \A y \in S : x <= y

\* F of the value of v: the value is taken once, however often F uses it.
Apply(v, F(_)) == CHOOSE r \in {F(x) : x \in {v}} : TRUE

\* ------------------------------------------------------- string helpers

\* str.split(sep) for a one-character separator.
Split(t, sep) ==
  LET pieces[start \in 1..(Len(t) + 1)] ==
        LET upto(idx) ==
              IF idx = {} THEN <<SubSeq(t, start, Len(t))>>
              ELSE <<SubSeq(t, start, Min(idx) - 1)>> \o pieces[Min(idx) + 1]
        IN  Apply({i \in start..Len(t) : t[i] = sep}, upto)
  IN  pieces[1]

\* str.strip().
Strip(t) ==
  LET keep == {i \in 1..Len(t) : t[i] \notin Whitespace}
  IN  IF keep = {} THEN <<>>
      ELSE SubSeq(t, Min(keep), CHOOSE j \in keep : \A k \in keep : k <= j)

\* int(s) of a text of decimal digits.
RECURSIVE IntOf(_)
IntOf(s) ==
  IF s = <<>> THEN 0
  ELSE 10 * IntOf(SubSeq(s, 1, Len(s) - 1)) + DigitVal(s[Len(s)])

\* str(n) of a non-negative integer.
RECURSIVE DecStr(_)
DecStr(n) ==
  IF n < 10 THEN <<Digits[n + 1]>>
  ELSE DecStr(n \div 10) \o <<Digits[(n % 10) + 1]>>

AllDigits(s) == s # <<>> /\ \A i \in 1..Len(s) : IsDigit(s[i])

\* The text as a TLA+ string (for the messages, which are only concatenated).
RECURSIVE StrOf(_)
StrOf(t) == IF t = <<>> THEN "" ELSE Head(t) \o StrOf(Tail(t))

RECURSIVE Pow2(_)
Pow2(n) == IF n = 0 THEN 1 ELSE 2 * Pow2(n - 1)

\* ----------------------------------------------------- ipaddress, IPv4

\* A failed parse of an address: the empty tuple (an address is a 4-tuple).
NoAddr == <<>>

HasSlash(t) == \E i \in 1..Len(t) : t[i] = "/"

\* ipaddress.IPv4Address._parse_octet: -1 stands for the ValueError.
parse_octet(s) ==
  LET in_range(v) == IF v > 255 THEN -1 ELSE v
  IN  IF ~AllDigits(s) THEN -1
      ELSE IF Len(s) > 3 THEN -1
      ELSE IF s # <<"0">> /\ s[1] = "0" THEN -1
      ELSE Apply(IntOf(s), in_range)

\* ipaddress.IPv4Address(text): the four octets, or NoAddr.
IPv4Address(t) ==
  LET checked(vals) == IF \E i \in 1..4 : vals[i] = -1 THEN NoAddr ELSE vals
      parsed(octets) ==
        IF Len(octets) # 4 THEN NoAddr
        ELSE Apply(<<parse_octet(octets[1]), parse_octet(octets[2]),
                     parse_octet(octets[3]), parse_octet(octets[4])>>, checked)
  IN  IF HasSlash(t) THEN NoAddr ELSE Apply(Split(t, "."), parsed)

\* str(IPv4Address): the dotted quad without leading zeros.
IPv4Str(a) ==
  LET joined(d) ==
        d[1] \o <<".">> \o d[2] \o <<".">> \o d[3] \o <<".">> \o d[4]
  IN  Apply(<<DecStr(a[1]), DecStr(a[2]), DecStr(a[3]), DecStr(a[4])>>,
            joined)

\* ipaddress._BaseV4._ip_int_from_prefix as octets: the netmask of a prefix.
NetmaskOctets(prefixlen) ==
  [j \in 1..4 |->
     LET bits == IF prefixlen - 8 * (j - 1) < 0 THEN 0
                 ELSE IF prefixlen - 8 * (j - 1) > 8 THEN 8
                 ELSE prefixlen - 8 * (j - 1)
     IN  256 - Pow2(8 - bits)]

\* int(prefixlen_str) of ipaddress._prefix_from_prefix_string, -1 for the
\* NetmaskValueError; leading zeros are dropped before the value is taken.
prefix_from_prefix_string(s, max_prefixlen) ==
  LET in_range(v) == IF v > max_prefixlen THEN -1 ELSE v
      value(z) == IF Len(z) > 3 THEN -1 ELSE Apply(IntOf(z), in_range)
      unpadded(nz) ==
        IF nz = {} THEN <<"0">> ELSE SubSeq(s, Min(nz), Len(s))
  IN  IF ~AllDigits(s) THEN -1
      ELSE Apply(unpadded({i \in 1..Len(s) : s[i] # "0"}), value)

\* ipaddress._prefix_from_ip_int on octets: the mask is 1*0*.
prefix_from_ip_int(m) ==
  LET pick(ps) == IF ps = {} THEN -1 ELSE CHOOSE p \in ps : TRUE
  IN  Apply({p \in 0..32 : NetmaskOctets(p) = m}, pick)

\* ipaddress._prefix_from_ip_string: a dotted netmask, else a dotted hostmask.
prefix_from_ip_string(s) ==
  LET either(as_netmask, m) ==
        IF as_netmask # -1 THEN as_netmask
        ELSE prefix_from_ip_int([j \in 1..4 |-> 255 - m[j]])
      of_mask(m) ==
        IF m = NoAddr THEN -1
        ELSE Apply(prefix_from_ip_int(m),
                   LAMBDA as_netmask : either(as_netmask, m))
  IN  Apply(IPv4Address(s), of_mask)

\* ipaddress.IPv4Network._make_netmask of a text.
make_netmask_v4(s) ==
  LET or_dotted(p) == IF p # -1 THEN p ELSE prefix_from_ip_string(s)
  IN  Apply(prefix_from_prefix_string(s, 32), or_dotted)

\* address & netmask, octet by octet.
MaskAddr(a, prefixlen) ==
  LET masked(netmask) == [j \in 1..4 |-> a[j] - (a[j] % (256 - netmask[j]))]
  IN  Apply(NetmaskOctets(prefixlen), masked)

\* A network that failed to parse.
NoNet == [version |-> 0, network_address |-> NoAddr, prefixlen |-> -1]

\* ipaddress.IPv4Network(text, strict=False).
IPv4Network(t) ==
  LET built(a, p) ==
        IF a = NoAddr \/ p = -1 THEN NoNet
        ELSE [version |-> 4, network_address |-> MaskAddr(a, p),
              prefixlen |-> p]
      of_parts(parts) ==
        IF Len(parts) > 2 THEN NoNet
        ELSE Apply(IPv4Address(parts[1]),
                   LAMBDA a :
                     Apply(IF Len(parts) = 2 THEN make_netmask_v4(parts[2])
                           ELSE 32,
                           LAMBDA p : built(a, p)))
  IN  Apply(Split(t, "/"), of_parts)

\* ----------------------------------------------------- ipaddress, IPv6

\* '%x' % n.
RECURSIVE HexStr(_)
HexStr(n) ==
  LET hex == Digits \o <<"a", "b", "c", "d", "e", "f">>
  IN  IF n < 16 THEN <<hex[n + 1]>>
      ELSE HexStr(n \div 16) \o <<hex[(n % 16) + 1]>>

\* ipaddress.IPv6Address._parse_hextet succeeds.
parse_hextet_ok(h) ==
  h # <<>> /\ Len(h) <= 4 /\ \A i \in 1..Len(h) : IsHexDigit(h[i])

\* The checks ipaddress.IPv6Address._ip_int_from_string makes on the parts
\* once an IPv4 suffix has been replaced by its two hextets.
v6_parts_ok(parts) ==
  LET n == Len(parts)
      \* 1-based positions of the empty parts strictly inside.
      with_skips(skips) ==
        LET skip == CHOOSE i \in skips : TRUE
            hi   == IF parts[1] = <<>> THEN skip - 2 ELSE skip - 1
            lo   == IF parts[n] = <<>> THEN n - skip - 1 ELSE n - skip
        IN  IF Cardinality(skips) > 1 THEN FALSE
            ELSE IF skips # {}
            THEN /\ ~(parts[1] = <<>> /\ hi # 0)
                 /\ ~(parts[n] = <<>> /\ lo # 0)
                 /\ 8 - (hi + lo) >= 1
                 /\ \A i \in (1..hi) \cup ((n - lo + 1)..n) :
                       parse_hextet_ok(parts[i])
            ELSE /\ n = 8
                 /\ \A i \in 1..n : parse_hextet_ok(parts[i])
  IN  IF n > 9 THEN FALSE
      ELSE with_skips({i \in 2..(n - 1) : parts[i] = <<>>})

\* ipaddress.IPv6Address._ip_int_from_string succeeds (the value is never
\* used by the extractor, only whether the text is an IPv6 address).
ip_int_from_string_v6_ok(t) ==
  LET with_suffix(parts0, v4) ==
        IF v4 = NoAddr THEN FALSE
        ELSE Apply(SubSeq(parts0, 1, Len(parts0) - 1)
                     \o <<HexStr(v4[1] * 256 + v4[2]),
                          HexStr(v4[3] * 256 + v4[4])>>,
                   v6_parts_ok)
      of_parts(parts0) ==
        IF Len(parts0) < 3 THEN FALSE
        ELSE IF \E i \in 1..Len(parts0[Len(parts0)]) :
                   parts0[Len(parts0)][i] = "."
        THEN Apply(IPv4Address(parts0[Len(parts0)]),
                   LAMBDA v4 : with_suffix(parts0, v4))
        ELSE v6_parts_ok(parts0)
  IN  IF t = <<>> THEN FALSE ELSE Apply(Split(t, ":"), of_parts)

\* ipaddress.IPv6Address(text) succeeds.
IPv6AddressOk(t) == ~HasSlash(t) /\ ip_int_from_string_v6_ok(t)

\* ipaddress.IPv6Network(text, strict=False) succeeds.
IPv6NetworkOk(t) ==
  LET of_parts(parts) ==
        /\ Len(parts) <= 2
        /\ IPv6AddressOk(parts[1])
        /\ Len(parts) = 2 => prefix_from_prefix_string(parts[2], 128) # -1
  IN  Apply(Split(t, "/"), of_parts)

\* ------------------------------------------- ipaddress, the two factories

\* ip_address without its second attempt: what is no IPv4 address raises.
ip_address_v4_only(t) ==
  LET only_v4(a) ==
        IF a # NoAddr THEN [version |-> 4, addr |-> a]
        ELSE [version |-> 0, addr |-> NoAddr]
  IN  Apply(IPv4Address(t), only_v4)

\* ipaddress.ip_address(text): version 4 with its octets, version 6, or
\* version 0 for the ValueError.
ip_address(t) ==
  LET or_v6(a) ==
        IF a # NoAddr THEN [version |-> 4, addr |-> a]
        ELSE IF IPv6AddressOk(t) THEN [version |-> 6, addr |-> NoAddr]
        ELSE [version |-> 0, addr |-> NoAddr]
  IN  Apply(IPv4Address(t), or_v6)

\* ipaddress.ip_network(text, strict=False).
ip_network(t) ==
  LET or_v6(n) ==
        IF n # NoNet THEN n
        ELSE IF IPv6NetworkOk(t)
        THEN [version |-> 6, network_address |-> NoAddr, prefixlen |-> -1]
        ELSE NoNet
  IN  Apply(IPv4Network(t), or_v6)

\* str(e) of the ValueError ip_address raises.
AddressErrorText(t) ==
  "'" \o StrOf(t) \o "' does not appear to be an IPv4 or IPv6 address"

\* str(e) of the ValueError ip_network raises.
NetworkErrorText(t) ==
  "'" \o StrOf(t) \o "' does not appear to be an IPv4 or IPv6 network"

\* ------------------------------------------------- the recovery pattern

\* \b at the gap before position p (p = Len(t) + 1 is the end of the text).
WordBoundary(t, p) ==
  LET before == p > 1 /\ IsWordChar(t[p - 1])
      after  == p <= Len(t) /\ IsWordChar(t[p])
  IN  before # after

\* k digits stand at p.
DigitsAt(t, p, k) ==
  p + k - 1 <= Len(t) /\ \A i \in p..(p + k - 1) : IsDigit(t[i])

\* The rest of (?:\d{1,3}\.){3}\d{1,3}\b from its g-th digit group on,
\* tried at p: the position after the match, or 0. \d{1,3} is greedy: three
\* digits are tried first, then two, then one.
RECURSIVE MatchGroups(_, _, _)
MatchGroups(t, p, g) ==
  LET rest(k) ==
        IF ~DigitsAt(t, p, k) THEN 0
        ELSE IF g = 4 THEN (IF WordBoundary(t, p + k) THEN p + k ELSE 0)
        ELSE IF p + k <= Len(t) /\ t[p + k] = "."
             THEN MatchGroups(t, p + k + 1, g + 1)
             ELSE 0
      first(tries) ==
        IF tries[3] # 0 THEN tries[3]
        ELSE IF tries[2] # 0 THEN tries[2]
        ELSE tries[1]
  IN  Apply(<<rest(1), rest(2), rest(3)>>, first)

\* ipv4_pattern tried at p: the position after the match, or 0.
MatchAt(t, p) == IF WordBoundary(t, p) THEN MatchGroups(t, p, 1) ELSE 0

\* finditer resuming one character after the start of a match instead of
\* after its end.
finditer_overlapping(t, pos) ==
  LET scan[p \in 1..(Len(t) + 1)] ==
        LET from(start) == <<<<start, MatchAt(t, start)>>>> \o scan[start + 1]
            leftmost(starts) ==
              IF starts = {} THEN <<>> ELSE Apply(Min(starts), from)
        IN  Apply({q \in p..Len(t) : MatchAt(t, q) # 0}, leftmost)
  IN  scan[pos]

\* The matches of ipv4_pattern in t from position pos on, each as <<first
\* position, position after the last>>: the search finds the leftmost match
\* and resumes after it.
finditer(t, pos) ==
  LET scan[p \in 1..(Len(t) + 1)] ==
        LET from(start) ==
              <<<<start, MatchAt(t, start)>>>> \o scan[MatchAt(t, start)]
            leftmost(starts) ==
              IF starts = {} THEN <<>> ELSE Apply(Min(starts), from)
        IN  Apply({q \in p..Len(t) : MatchAt(t, q) # 0}, leftmost)
  IN  scan[pos]

\* re.findall(ipv4_pattern, t): the matched texts.
findall(t) ==
  LET texts(spans) ==
        [i \in 1..Len(spans) |-> SubSeq(t, spans[i][1], spans[i][2] - 1)]
  IN  Apply(finditer(t, 1), texts)

\* The elements of a sequence, each kept where it first occurs.
Dedup(seq) ==
  LET firsts == {i \in 1..Len(seq) : \A j \in 1..(i - 1) : seq[j] # seq[i]}
      pick[from \in 1..(Len(seq) + 1)] ==
        IF \A i \in firsts : i < from THEN <<>>
        ELSE <<seq[Min({i \in firsts : i >= from})]>>
               \o pick[Min({i \in firsts : i >= from}) + 1]
  IN  pick[1]

\* extract_potential_ips_from_text returning each address once.
extract_unique_ips_from_text(text) ==
  LET strs(kept) == Dedup([i \in 1..Len(kept) |-> IPv4Str(kept[i].addr)])
      valid_ips(parsed) ==
        Apply(SelectSeq(parsed, LAMBDA ip_obj : ip_obj.version = 4), strs)
      of_tokens(potential_ips) ==
        valid_ips([i \in 1..Len(potential_ips) |-> ip_address(potential_ips[i])])
  IN  Apply(findall(text), of_tokens)

extract_potential_ips_from_text(text) ==
  LET strs(kept) == [i \in 1..Len(kept) |-> IPv4Str(kept[i].addr)]
      valid_ips(parsed) ==
        Apply(SelectSeq(parsed, LAMBDA ip_obj : ip_obj.version = 4), strs)
      of_tokens(potential_ips) ==
        valid_ips([i \in 1..Len(potential_ips) |-> ip_address(potential_ips[i])])
  IN  Apply(findall(text), of_tokens)

\* ------------------------------------------------------ subnet expansion

\* subnet.num_addresses.
num_addresses(subnet) == Pow2(32 - subnet.prefixlen)

\* The k-th address of the network (k from 0): network_address + k, with the
\* carries between the octets.
AddrAt(subnet, k) ==
  LET a  == subnet.network_address
      s4 == a[4] + k
      s3 == a[3] + (s4 \div 256)
      s2 == a[2] + (s3 \div 256)
      s1 == a[1] + (s2 \div 256)
  IN  <<s1, s2 % 256, s3 % 256, s4 % 256>>

\* list(subnet)[i:j], as the set of str(ip) of its elements.
SliceStrs(subnet, i, j) ==
  LET upto(n) == {IPv4Str(AddrAt(subnet, k)) :
                    k \in i..((IF j < n THEN j ELSE n) - 1)}
  IN  upto(num_addresses(subnet))

\* Above this many addresses a subnet is large.
large_subnet_limit == 1000

batch_size == 10000

\* The batched loop left after its first batch.
expand_first_batch(ips, subnet, i) ==
  ips \cup SliceStrs(subnet, i, i + batch_size)

\* The loop "for i in range(0, num_ips, batch_size)" from i on.
RECURSIVE expand_batched(_, _, _)
expand_batched(ips, subnet, i) ==
  IF i >= num_addresses(subnet) THEN ips
  ELSE expand_batched(ips \cup SliceStrs(subnet, i, i + batch_size),
                      subnet, i + batch_size)

\* unique_ips.update(str(ip) for ip in subnet).
expand_unbatched(ips, subnet) ==
  ips \cup {IPv4Str(AddrAt(subnet, k)) : k \in 0..(num_addresses(subnet) - 1)}

\* process_subnet asking for confirmation whatever expand_all is.
process_subnet_asking(ips, subnet, all, answer) ==
  IF num_addresses(subnet) > large_subnet_limit
  THEN IF ~answer
       THEN [asked |-> TRUE, result |-> FALSE, unique_ips |-> ips, skipped |-> 1]
       ELSE [asked |-> TRUE, result |-> TRUE,
             unique_ips |-> expand_batched(ips, subnet, 0), skipped |-> 0]
  ELSE [asked |-> FALSE, result |-> TRUE,
        unique_ips |-> expand_unbatched(ips, subnet), skipped |-> 0]

\* process_subnet on the store ips: whether Confirm.ask was called, the
\* value returned, the store and the increment of large_subnets_skipped.
\* answer is what Confirm.ask returns when it is called.
process_subnet(ips, subnet, all, answer) ==
  IF num_addresses(subnet) > large_subnet_limit
  THEN IF ~all /\ ~answer
       THEN [asked |-> TRUE, result |-> FALSE, unique_ips |-> ips, skipped |-> 1]
       ELSE [asked |-> ~all, result |-> TRUE,
             unique_ips |-> expand_batched(ips, subnet, 0), skipped |-> 0]
  ELSE [asked |-> FALSE, result |-> TRUE,
        unique_ips |-> expand_unbatched(ips, subnet), skipped |-> 0]

\* ------------------------------------------------------------- the state

VARIABLES
  expand_all,       \* self.expand_all
  unique_ips,       \* self.unique_ips: a set of texts
  invalid_entries,  \* self.invalid_entries: a sequence of records
  stats,            \* self.stats (without start_time)
  pc,               \* where extract_ips stands
  file_index,       \* files of the listing taken so far
  line_number,      \* line_number of the inner loop
  line,             \* line of the inner loop, stripped
  prompts,          \* what Confirm.ask returned, call by call
  recovery_passes,  \* calls of process_invalid_entries so far
  output_file,      \* the output file on disk
  error_log         \* the error log on disk

vars ==
  <<expand_all, unique_ips, invalid_entries, stats, pc, file_index,
    line_number, line, prompts, recovery_passes, output_file, error_log>>

\* A file that does not exist on disk.
NoFile == [exists |-> FALSE, lines |-> <<>>]

\* __init__.
Init ==
  /\ expand_all \in BOOLEAN
  /\ unique_ips = {}
  /\ invalid_entries = <<>>
  /\ stats = [files_processed |-> 0, lines_processed |-> 0, valid_ipv4 |-> 0,
              valid_subnets |-> 0, invalid_entries |-> 0, ipv6_skipped |-> 0,
              large_subnets_skipped |-> 0, files_with_errors |-> 0,
              recovered_ips |-> 0]
  /\ pc = "next_file"
  /\ file_index = 0
  /\ line_number = 0
  /\ line = <<>>
  /\ prompts = <<>>
  /\ recovery_passes = 0
  /\ output_file = NoFile
  /\ error_log = NoFile

\* log_invalid_entry: the entries with one more record. The key
\* 'recovered_ips' is absent until the recovery pass sets it.
log_invalid_entry(entries, file_name, number, content, error) ==
  Append(entries,
         [file |-> file_name, line_number |-> number, content |-> content,
          error |-> error, has_recovered_ips |-> FALSE, recovered_ips |-> <<>>])

Bump(st, counter) == [st EXCEPT ![counter] = @ + 1]

\* ---------------------------------------------------------------- inputs

\* The raw lines a readable file may hold, as readlines() returns them.
RawLines ==
  { <<" ", "1", "0", ".", "0", ".", "0", ".", "1", "\n">>,
    <<"1", "0", ".", "0", ".", "0", ".", "5", "/", "3", "1", "\n">>,
    <<":", ":", "f", "f", "f", "f", ":", "9", ".", "9", ".", "9", ".", "9", "\n">>,
    <<":", ":", "/", "6", "4", "\n">>,
    <<"9", ".", "9", ".", "9", ".", "9", ".", "1", " ", "2", "5", "6", ".", "1",
      ".", "1", ".", "1", " ", "9", ".", "9", ".", "9", ".", "9", "\n">>,
    <<"n", "o", "t", "-", "a", "n", "-", "i", "p", "\n">>,
    <<" ", "\n">> }

\* The lines of the runs that expand subnets: a small subnet with host bits
\* set, a large one of a single batch and a large one of two batches.
SubnetLines ==
  { <<"1", "0", ".", "0", ".", "0", ".", "5", "/", "3", "0", "\n">>,
    <<"1", "0", ".", "0", ".", "7", ".", "9", "/", "2", "2", "\n">>,
    <<"1", "0", ".", "0", ".", "6", "4", ".", "0", "/", "1", "8", "\n">>,
    <<"1", "0", ".", "0", ".", "0", ".", "1", "\n">> }

\* What read_file_lines meets: a file it reads, a file whose name ends in
\* .DS_Store, a file whose reading raises.
FileKinds == {"readable", "ds_store", "unreadable"}

\* str(e) of the exception read_file_lines catches.
FileErrorText == "[Errno 13] Permission denied"

\* ------------------------------------------------------------- the scan

\* read_file_lines whose except clause counts the file and logs nothing.
read_file_unlogged(kind) ==
  /\ pc = "next_file"
  /\ file_index < MaxFiles
  /\ file_index' = file_index + 1
  /\ line_number' = 0
  /\ pc' = IF kind = "readable" THEN "lines" ELSE "next_file"
  /\ stats' = CASE kind = "readable" -> stats
                [] kind = "ds_store" -> Bump(stats, "files_processed")
                [] kind = "unreadable" ->
                     Bump(Bump(stats, "files_with_errors"), "files_processed")
  /\ UNCHANGED <<expand_all, unique_ips, invalid_entries, line, prompts,
                 recovery_passes, output_file, error_log>>

\* The outer loop takes the next file of the listing and read_file_lines
\* reads it. A file is named by its place in the listing.
read_file(kind) ==
  /\ pc = "next_file"
  /\ file_index < MaxFiles
  /\ file_index' = file_index + 1
  /\ line_number' = 0
  /\ CASE kind = "readable" ->
            /\ pc' = "lines"
            /\ UNCHANGED <<stats, invalid_entries>>
       [] kind = "ds_store" ->
            \* no line: the inner loop is empty
            /\ pc' = "next_file"
            /\ stats' = Bump(stats, "files_processed")
            /\ UNCHANGED invalid_entries
       [] kind = "unreadable" ->
            /\ pc' = "next_file"
            /\ stats' = Bump(Bump(stats, "files_with_errors"), "files_processed")
            /\ invalid_entries' =
                 log_invalid_entry(invalid_entries, file_index + 1, 0, <<>>,
                                   "File read error: " \o FileErrorText)
  /\ UNCHANGED <<expand_all, unique_ips, line, prompts, recovery_passes,
                 output_file, error_log>>

\* One pass of the inner loop's body on the stripped line l: the store, the
\* entries, the counters and the number of prompts after it.
scan_line(l, answer) ==
  LET st == Bump(stats, "lines_processed")
      same == [unique_ips |-> unique_ips, invalid_entries |-> invalid_entries,
               stats |-> st, prompts |-> prompts]
      logged(counter, error) ==
        [same EXCEPT
           !.stats = Bump(st, counter),
           !.invalid_entries =
              log_invalid_entry(invalid_entries, file_index, line_number + 1,
                                l, error)]
      address(ip) ==
        CASE ip.version = 6 -> [counter |-> "ipv6_skipped",
                                error |-> "IPv6 address skipped"]
          [] ip.version = 0 ->
               [counter |-> "invalid_entries",
                error |-> "Invalid IP/subnet: " \o AddressErrorText(l)]
          [] OTHER ->
               [same EXCEPT
                  !.unique_ips = unique_ips \cup {IPv4Str(ip.addr)},
                  !.stats = Bump(st, "valid_ipv4")]
      expanded(r) ==
        [same EXCEPT
           !.unique_ips = r.unique_ips,
           !.prompts = IF r.asked THEN Append(prompts, answer) ELSE prompts,
           !.stats = [st EXCEPT
                        !.large_subnets_skipped = @ + r.skipped,
                        !.valid_subnets = IF r.result THEN @ + 1 ELSE @]]
      subnet(network) ==
        CASE network.version = 6 -> [counter |-> "ipv6_skipped",
                                     error |-> "IPv6 subnet skipped"]
          [] network.version = 0 ->
               [counter |-> "invalid_entries",
                error |-> "Invalid IP/subnet: " \o NetworkErrorText(l)]
          [] OTHER ->
               Apply(process_subnet(unique_ips, network, expand_all, answer),
                     expanded)
      \* the two branches that log share log_invalid_entry
      outcome(o) ==
        IF "counter" \in DOMAIN o THEN logged(o.counter, o.error) ELSE o
  IN  IF l = <<>> THEN same
      ELSE IF ~HasSlash(l)
      THEN Apply(Apply(ip_address(l), address), outcome)
      ELSE Apply(Apply(ip_network(l), subnet), outcome)

\* The inner loop's body without its except clause: the ValueError of a line
\* that does not parse leaves extract_ips.
process_line_uncaught(raw, answer) ==
  /\ pc = "lines"
  /\ stats.lines_processed < MaxLines
  /\ line_number' = line_number + 1
  /\ \E l \in {Strip(raw)} :
        /\ line' = l
        /\ \E after \in {scan_line(l, answer)} :
              IF after.stats.invalid_entries > stats.invalid_entries
              THEN /\ pc' = "aborted"
                   /\ stats' = Bump(stats, "lines_processed")
                   /\ UNCHANGED <<unique_ips, invalid_entries, prompts>>
              ELSE /\ pc' = pc
                   /\ unique_ips' = after.unique_ips
                   /\ invalid_entries' = after.invalid_entries
                   /\ stats' = after.stats
                   /\ prompts' = after.prompts
  /\ UNCHANGED <<expand_all, file_index, recovery_passes, output_file,
                 error_log>>

\* The inner loop's body on the raw line of the file.
process_line(raw, answer) ==
  /\ pc = "lines"
  /\ stats.lines_processed < MaxLines
  /\ line_number' = line_number + 1
  /\ \E l \in {Strip(raw)} :
        /\ line' = l
        /\ \E after \in {scan_line(l, answer)} :
              /\ unique_ips' = after.unique_ips
              /\ invalid_entries' = after.invalid_entries
              /\ stats' = after.stats
              /\ prompts' = after.prompts
  /\ UNCHANGED <<expand_all, pc, file_index, recovery_passes, output_file,
                 error_log>>

\* The file has no further line.
end_file ==
  /\ pc = "lines"
  /\ pc' = "next_file"
  /\ stats' = Bump(stats, "files_processed")
  /\ UNCHANGED <<expand_all, unique_ips, invalid_entries, file_index,
                 line_number, line, prompts, recovery_passes, output_file,
                 error_log>>

\* ------------------------------------------------------ the recovery pass

\* recover_entry extending the entry's list instead of assigning it.
recover_entry_extending(entry) ==
  LET annotated(recovered_ips) ==
        IF recovered_ips # <<>>
        THEN [entry EXCEPT
                !.has_recovered_ips = TRUE,
                !.recovered_ips = @ \o recovered_ips,
                !.error = @ \o " (Recovered " \o ToString(Len(recovered_ips))
                            \o " valid IPv4 addresses)"]
        ELSE [entry EXCEPT !.has_recovered_ips = TRUE]
  IN  Apply(extract_potential_ips_from_text(entry.content), annotated)

\* The loop body of process_invalid_entries on one entry.
recover_entry(entry) ==
  LET annotated(recovered_ips) ==
        IF recovered_ips # <<>>
        THEN [entry EXCEPT
                !.has_recovered_ips = TRUE,
                !.recovered_ips = recovered_ips,
                !.error = @ \o " (Recovered " \o ToString(Len(recovered_ips))
                            \o " valid IPv4 addresses)"]
        ELSE [entry EXCEPT !.has_recovered_ips = TRUE, !.recovered_ips = <<>>]
  IN  Apply(extract_potential_ips_from_text(entry.content), annotated)

\* The entries after the loop of process_invalid_entries.
recovered_entries(entries) ==
  [i \in 1..Len(entries) |-> recover_entry(entries[i])]

\* The elements of a sequence of sequences.
Flatten(ss) == UNION {{ss[i][j] : j \in 1..Len(ss[i])} : i \in 1..Len(ss)}

RECURSIVE SumLen(_)
SumLen(ss) == IF ss = <<>> THEN 0 ELSE Len(Head(ss)) + SumLen(Tail(ss))

\* The recovered lists of the entries, in the entries' order.
recovered_lists(entries) == [i \in 1..Len(entries) |-> entries[i].recovered_ips]

\* The body of process_invalid_entries: the entries are annotated and the
\* recovered addresses join the store.
recovery_pass ==
  /\ \E after \in {recovered_entries(invalid_entries)} :
        /\ invalid_entries' = after
        /\ unique_ips' = unique_ips \cup Flatten(recovered_lists(after))
  /\ recovery_passes' = recovery_passes + 1

\* process_invalid_entries, called once the listing is exhausted, and the
\* assignment of its count to stats['recovered_ips'].
process_invalid_entries ==
  /\ pc = "next_file"
  /\ pc' = "write_output"
  /\ recovery_pass
  /\ stats' = [stats EXCEPT
                 !.recovered_ips = SumLen(recovered_lists(invalid_entries'))]
  /\ UNCHANGED <<expand_all, file_index, line_number, line, prompts,
                 output_file, error_log>>

\* process_invalid_entries called once more on the annotated entries, before
\* anything is written.
process_invalid_entries_again ==
  /\ pc = "write_output"
  /\ recovery_passes < MaxPasses
  /\ recovery_pass
  /\ UNCHANGED <<expand_all, stats, pc, file_index, line_number, line, prompts,
                 output_file, error_log>>

\* ----------------------------------------------------- the output files

\* The sort without its key: the texts themselves are compared, character
\* by character ('.' is 46, the digits are 48 to 57).
sort_key_text(ip) ==
  [i \in 1..Len(ip) |-> IF ip[i] = "." THEN 46 ELSE 48 + DigitVal(ip[i])]

\* The key of the sort: [int(octet) for octet in ip.split('.')].
sort_key(ip) ==
  LET ints(octets) == [i \in 1..Len(octets) |-> IntOf(octets[i])]
  IN  Apply(Split(ip, "."), ints)

\* Python's x < y on two lists of integers.
ListLess(x, y) ==
  \/ \E k \in 1..Len(x) :
        /\ k <= Len(y)
        /\ x[k] < y[k]
        /\ \A j \in 1..(k - 1) : x[j] = y[j]
  \/ /\ Len(x) < Len(y)
     /\ \A j \in 1..Len(x) : x[j] = y[j]

\* The comparison sorted() makes between two members of the store.
ip_before(a, b) == ListLess(sort_key(a), sort_key(b))

\* The members of a set in the order its iteration yields them.
RECURSIVE SetToSeq(_)
SetToSeq(S) ==
  IF S = {} THEN <<>>
  ELSE LET x == CHOOSE y \in S : TRUE
       IN  <<x>> \o SetToSeq(S \ {x})

\* sorted(self.unique_ips, key=...).
sorted_ips(ips) == SortSeq(SetToSeq(ips), ip_before)

\* What the loop over sorted_ips writes: ip + '\n' for each.
output_lines(ips) ==
  LET written(sorted) == [i \in 1..Len(sorted) |-> sorted[i] \o <<"\n">>]
  IN  Apply(sorted_ips(ips), written)

\* The with-block that opens the output file and writes the sorted store.
write_output ==
  /\ pc = "write_output"
  /\ pc' = "write_log"
  /\ output_file' = [exists |-> TRUE, lines |-> output_lines(unique_ips)]
  /\ UNCHANGED <<expand_all, unique_ips, invalid_entries, stats, file_index,
                 line_number, line, prompts, recovery_passes, error_log>>

\* The block write_error_log writes for one entry.
log_block(entry) ==
  [file |-> entry.file, line_number |-> entry.line_number,
   content |-> entry.content, error |-> entry.error,
   recovered |-> IF entry.has_recovered_ips THEN entry.recovered_ips ELSE <<>>]

\* The blocks write_error_log writes (the header is left out).
log_blocks(entries) == [i \in 1..Len(entries) |-> log_block(entries[i])]

\* write_error_log, then display_final_stats.
write_error_log ==
  /\ pc = "write_log"
  /\ pc' = "done"
  /\ error_log' = [exists |-> TRUE, lines |-> log_blocks(invalid_entries)]
  /\ UNCHANGED <<expand_all, unique_ips, invalid_entries, stats, file_index,
                 line_number, line, prompts, recovery_passes, output_file>>

\* ---------------------------------------------------------- cancellation

\* The first k elements of s, k at most MaxPartial.
Prefixes(s) ==
  {SubSeq(s, 1, k) :
     k \in 0..(IF Len(s) < MaxPartial THEN Len(s) ELSE MaxPartial)}

\* KeyboardInterrupt, caught by main, which returns 130. Raised inside the
\* with-block of a file being written it leaves the lines written so far.
KeyboardInterrupt ==
  /\ pc \notin {"done", "cancelled"}
  /\ pc' = "cancelled"
  /\ \/ UNCHANGED <<output_file, error_log>>
     \/ /\ pc = "write_output"
        /\ \E written \in Prefixes(output_lines(unique_ips)) :
              output_file' = [exists |-> TRUE, lines |-> written]
        /\ UNCHANGED error_log
     \/ /\ pc = "write_log"
        /\ \E written \in Prefixes(log_blocks(invalid_entries)) :
              error_log' = [exists |-> TRUE, lines |-> written]
        /\ UNCHANGED output_file
  /\ UNCHANGED <<expand_all, unique_ips, invalid_entries, stats, file_index,
                 line_number, line, prompts, recovery_passes>>

\* -------------------------------------------------------- specifications

\* extract_ips, uninterrupted.
NextRun ==
  \/ \E kind \in FileKinds : read_file(kind)
  \/ \E raw \in RawLines, answer \in BOOLEAN : process_line(raw, answer)
  \/ end_file
  \/ process_invalid_entries
  \/ write_output
  \/ write_error_log

Next == NextRun \/ KeyboardInterrupt

\* A run of main: extract_ips, which the user may interrupt.
Spec == Init /\ [][Next]_vars

\* The uninterrupted run: each step of extract_ips is taken once it can be.
SpecLive == Init /\ [][NextRun]_vars /\ WF_vars(NextRun)

\* The run, with the recovery pass also called again after its own call.
NextRerun == NextRun \/ process_invalid_entries_again

SpecRerun == Init /\ [][NextRerun]_vars

\* The scan of readable files that hold subnets, large ones among them.
NextSubnet ==
  \/ read_file("readable")
  \/ /\ stats.lines_processed < MaxSubnetLines
     /\ \E raw \in SubnetLines, answer \in BOOLEAN : process_line(raw, answer)
  \/ end_file

SpecSubnet == Init /\ [][NextSubnet]_vars

\* ----------------------------------------------------------- properties

\* A step that runs the body of the inner loop once.
LineStep == stats'.lines_processed = stats.lines_processed + 1

\* A step that runs process_invalid_entries.
RecoveryStep == recovery_passes' = recovery_passes + 1

\* The numeric order of two addresses: the first octet that differs decides.
NumLess(a, b) ==
  \E k \in 1..4 : a[k] < b[k] /\ \A j \in 1..(k - 1) : a[j] = b[j]

\* A line of the output file without its newline.
LineIp(l) == SubSeq(l, 1, Len(l) - 1)

Ip_10_0_0_1 == <<"1", "0", ".", "0", ".", "0", ".", "1">>

Ip_9_9_9_9 == <<"9", ".", "9", ".", "9", ".", "9">>

(* C1: once extract_ips has written the output file, the file holds exactly
   the members of the store, each once, one per line, in ascending numeric
   order of the four octets compared as integers. *)
C1_OutputSortedNumerically ==
  pc \in {"write_log", "done"} =>
    /\ output_file.exists
    /\ Len(output_file.lines) = Cardinality(unique_ips)
    /\ \A i \in 1..Len(output_file.lines) :
          /\ output_file.lines[i][Len(output_file.lines[i])] = "\n"
          /\ LineIp(output_file.lines[i]) \in unique_ips
    /\ \A i, j \in 1..Len(output_file.lines) :
          i < j => NumLess(IPv4Address(LineIp(output_file.lines[i])),
                           IPv4Address(LineIp(output_file.lines[j])))

\* The run is over and the store holds 10.0.0.1 and 9.9.9.9, which the order
\* of the texts and the order of the octets rank differently.
C1_Witness ==
  pc = "done" /\ Ip_10_0_0_1 \in unique_ips /\ Ip_9_9_9_9 \in unique_ips

(* C4: a step of the scan on a non-blank line that is a valid IPv6 address
   (no '/') or a valid IPv6 network (with '/') leaves the store unchanged,
   appends exactly one invalid entry with the reason "IPv6 address skipped"
   (respectively "IPv6 subnet skipped") and adds 1 to ipv6_skipped; of the
   other counters only lines_processed changes. *)
C4_IPv6LineSkipped ==
  [][(/\ LineStep
      /\ line' # <<>>
      /\ IF HasSlash(line') THEN IPv6NetworkOk(line') ELSE IPv6AddressOk(line'))
     => /\ unique_ips' = unique_ips
        /\ invalid_entries' =
             Append(invalid_entries,
                    [file |-> file_index, line_number |-> line_number',
                     content |-> line',
                     error |-> IF HasSlash(line') THEN "IPv6 subnet skipped"
                               ELSE "IPv6 address skipped",
                     has_recovered_ips |-> FALSE, recovered_ips |-> <<>>])
        /\ stats' = [stats EXCEPT !.lines_processed = @ + 1,
                                  !.ipv6_skipped = @ + 1]]_vars

\* The scan has skipped an IPv6 address and an IPv6 network.
C4_Witness ==
  /\ stats.ipv6_skipped = 2
  /\ \E i, j \in 1..Len(invalid_entries) :
        /\ invalid_entries[i].error = "IPv6 address skipped"
        /\ invalid_entries[j].error = "IPv6 subnet skipped"

(* C8: the output file is written only after the scan and the recovery pass
   are over, and a cancellation leaves no partial output file: in every
   state the output file either does not exist or holds the complete sorted
   store. *)
C8_NoPartialOutput ==
  output_file.exists =>
    /\ recovery_passes >= 1
    /\ output_file.lines = output_lines(unique_ips)

(* C10: in every state the number of invalid entries is invalid_entries +
   ipv6_skipped + files_with_errors; entries are only appended, the recovery
   pass neither removes nor reorders them, and a blank line adds none while
   lines_processed still counts it. *)
C10_EntriesMatchCounters ==
  /\ [](Len(invalid_entries) =
          stats.invalid_entries + stats.ipv6_skipped + stats.files_with_errors)
  /\ [][/\ Len(invalid_entries') >= Len(invalid_entries)
        /\ \A i \in 1..Len(invalid_entries) :
              /\ invalid_entries'[i].file = invalid_entries[i].file
              /\ invalid_entries'[i].line_number = invalid_entries[i].line_number
              /\ invalid_entries'[i].content = invalid_entries[i].content
        /\ RecoveryStep => Len(invalid_entries') = Len(invalid_entries)
        /\ (LineStep /\ line' = <<>>) => invalid_entries' = invalid_entries
        /\ (pc = "lines" /\ line_number' = line_number + 1) => LineStep]_vars

\* The run is over with an entry of each kind, after a blank line.
C10_Witness ==
  /\ pc = "done"
  /\ stats.files_with_errors = 1
  /\ stats.ipv6_skipped = 1
  /\ stats.invalid_entries = 1
  /\ stats.lines_processed = 3

\* The text t[s..e] has the shape of the recovery pattern: digits and
\* three dots, every group of digits one to three long, between two word
\* boundaries.
IsQuad(t, s, e) ==
  /\ Cardinality({i \in s..e : t[i] = "."}) = 3
  /\ \A i \in s..e : IsDigit(t[i]) \/ t[i] = "."
  /\ IsDigit(t[s]) /\ IsDigit(t[e])
  /\ \A i \in s..(e - 1) : ~(t[i] = "." /\ t[i + 1] = ".")
  /\ \A i \in s..(e - 3) : \E j \in i..(i + 3) : t[j] = "."
  /\ s = 1 \/ ~IsWordChar(t[s - 1])
  /\ e = Len(t) \/ ~IsWordChar(t[e + 1])

\* The leftmost texts of that shape, none overlapping the one before it.
Tokens(t, pos) ==
  LET leftmost(q) == CHOOSE se \in q : \A other \in q : se[1] <= other[1]
      rest[p \in 1..(Len(t) + 1)] ==
        LET from(se) == <<SubSeq(t, se[1], se[2])>> \o rest[se[2] + 1]
            among(quads) ==
              IF quads = {} THEN <<>> ELSE Apply(leftmost(quads), from)
        IN  Apply({se \in (p..Len(t)) \X (p..Len(t)) :
                     se[1] <= se[2] /\ IsQuad(t, se[1], se[2])}, among)
  IN  rest[pos]

\* The token is a dotted quad of octets 0 to 255 written without leading
\* zeros.
ValidQuad(token) ==
  LET octets_ok(octets) ==
        \A i \in 1..Len(octets) :
           /\ IntOf(octets[i]) <= 255
           /\ Len(octets[i]) = 1 \/ octets[i][1] # "0"
  IN  Apply(Split(token, "."), octets_ok)

ExpectedRecovered(content) == SelectSeq(Tokens(content, 1), ValidQuad)

RecoveredNote(n) == " (Recovered " \o ToString(n) \o " valid IPv4 addresses)"

(* C5: the recovery pass gives every invalid entry, whatever made it one, the
   list of the pattern's tokens of its content that are valid IPv4, in their
   order in the content; every recovered address is in the store; the error
   text gains the count of recoveries exactly when the list is not empty; no
   address leaves the store. *)
C5_RecoveryAnnotatesEntries ==
  [][RecoveryStep =>
       /\ Len(invalid_entries') = Len(invalid_entries)
       /\ unique_ips \subseteq unique_ips'
       /\ \A i \in 1..Len(invalid_entries) :
             LET expected == ExpectedRecovered(invalid_entries[i].content)
             IN  /\ invalid_entries'[i].has_recovered_ips
                 /\ invalid_entries'[i].recovered_ips = expected
                 /\ \A j \in 1..Len(expected) : expected[j] \in unique_ips'
                 /\ invalid_entries'[i].error =
                      IF expected # <<>>
                      THEN invalid_entries[i].error
                             \o RecoveredNote(Len(expected))
                      ELSE invalid_entries[i].error]_vars

\* The pass has run over an entry of a file that could not be read, an entry
\* of an IPv6 line that held one address and an entry of an invalid line
\* whose three tokens gave two addresses.
C5_Witness ==
  /\ recovery_passes = 1
  /\ \E i, j, k \in 1..Len(invalid_entries) :
        /\ invalid_entries[i].line_number = 0
        /\ invalid_entries[i].recovered_ips = <<>>
        /\ invalid_entries[j].error =
             "IPv6 address skipped" \o RecoveredNote(1)
        /\ invalid_entries[k].error # invalid_entries[j].error
        /\ Len(invalid_entries[k].recovered_ips) = 2

(* C9 as stated: no entry's recovered list holds the same address twice. *)
C9_NoDuplicateRecovered ==
  \A i \in 1..Len(invalid_entries) :
     \A j, k \in 1..Len(invalid_entries[i].recovered_ips) :
        j # k => invalid_entries[i].recovered_ips[j]
                   # invalid_entries[i].recovered_ips[k]

(* C9, amended: the matches of the recovery pattern in an entry's content
   come in left-to-right order and no two of them overlap, and an entry's
   recovered list is no longer than the matches; a token that occurs twice
   in the content is matched twice. *)
C9_MatchesOrderedDisjoint ==
  \A i \in 1..Len(invalid_entries) :
     LET spans == finditer(invalid_entries[i].content, 1)
     IN  /\ \A k \in 1..Len(spans) : spans[k][1] < spans[k][2]
         /\ \A k \in 1..(Len(spans) - 1) : spans[k][2] <= spans[k + 1][1]
         /\ Len(invalid_entries[i].recovered_ips) <= Len(spans)

\* An entry whose content holds three matches has been given a recovered
\* list that holds 9.9.9.9 twice.
C9_Witness ==
  \E i \in 1..Len(invalid_entries) :
     /\ Len(finditer(invalid_entries[i].content, 1)) = 3
     /\ invalid_entries[i].recovered_ips = <<Ip_9_9_9_9, Ip_9_9_9_9>>

(* C6: a second run of process_invalid_entries over the annotated entries
   leaves the store as it is and lengthens no entry's recovered list. *)
C6_RecoveryIdempotent ==
  [][(RecoveryStep /\ recovery_passes >= 1) =>
       /\ unique_ips' = unique_ips
       /\ Len(invalid_entries') = Len(invalid_entries)
       /\ \A i \in 1..Len(invalid_entries) :
             invalid_entries'[i].recovered_ips
               = invalid_entries[i].recovered_ips]_vars

\* The pass has run twice over an entry with recovered addresses.
C6_Witness ==
  /\ recovery_passes = 2
  /\ \E i \in 1..Len(invalid_entries) :
        invalid_entries[i].recovered_ips # <<>>

\* The stripped line is neither an IPv4 nor an IPv6 address or network.
ParseFails(l) ==
  IF HasSlash(l) THEN IPv4Network(l) = NoNet /\ ~IPv6NetworkOk(l)
  ELSE IPv4Address(l) = NoAddr /\ ~IPv6AddressOk(l)

(* C7: a line that fails to parse yields one invalid entry with the reason
   "Invalid IP/subnet: ..." and the scan goes on; a file that cannot be read
   yields no line, one invalid entry with line number 0 and empty content
   and one more files_with_errors, and the scan goes on with the next file;
   every uninterrupted run reaches the recovery pass and writes its output. *)
C7_RunCompletes ==
  /\ [][/\ (LineStep /\ line' # <<>> /\ ParseFails(line')) =>
             /\ pc' = "lines"
             /\ stats'.invalid_entries = stats.invalid_entries + 1
             /\ invalid_entries' =
                  Append(invalid_entries,
                         [file |-> file_index, line_number |-> line_number',
                          content |-> line',
                          error |-> "Invalid IP/subnet: "
                                      \o (IF HasSlash(line')
                                          THEN NetworkErrorText(line')
                                          ELSE AddressErrorText(line')),
                          has_recovered_ips |-> FALSE, recovered_ips |-> <<>>])
        /\ stats'.files_with_errors # stats.files_with_errors =>
             /\ pc' = "next_file"
             /\ file_index' = file_index + 1
             /\ stats'.files_with_errors = stats.files_with_errors + 1
             /\ stats'.lines_processed = stats.lines_processed
             /\ invalid_entries' =
                  Append(invalid_entries,
                         [file |-> file_index', line_number |-> 0,
                          content |-> <<>>,
                          error |-> "File read error: " \o FileErrorText,
                          has_recovered_ips |-> FALSE, recovered_ips |-> <<>>])
        /\ pc' \in {"next_file", "lines", "write_output", "write_log", "done"}
       ]_vars
  /\ <>(pc = "done" /\ recovery_passes = 1 /\ output_file.exists
          /\ error_log.exists)

\* The run is over after a line that did not parse and a file that could not
\* be read.
C7_Witness ==
  /\ pc = "done"
  /\ stats.invalid_entries >= 1
  /\ stats.files_with_errors >= 1
  /\ output_file.exists

\* The text is an IPv4 address inside the network.
InSubnet(ip, subnet) ==
  \E a \in {IPv4Address(ip)} :
     a # NoAddr /\ MaskAddr(a, subnet.prefixlen) = subnet.network_address

\* Confirm.ask was called in the step.
Asked == Len(prompts') = Len(prompts) + 1

\* process_subnet goes on to expand a subnet of n addresses.
Proceeds(n) ==
  \/ n <= large_subnet_limit
  \/ expand_all
  \/ Asked /\ prompts'[Len(prompts')]

(* C2: when process_subnet goes on to expand a valid IPv4 subnet (at most
   1000 addresses, or expand_all, or the confirmation accepted) it returns
   true, so that valid_subnets is incremented, and the store afterwards is
   the store before united with exactly the 2^(32-prefix) addresses of the
   subnet; the batched loop and the unbatched update give the same store. *)
C2_SubnetExpansion ==
  [][\A subnet \in {IPv4Network(line')} :
       (LineStep /\ HasSlash(line') /\ subnet # NoNet
          /\ Proceeds(num_addresses(subnet))) =>
         /\ stats'.valid_subnets = stats.valid_subnets + 1
         /\ stats'.large_subnets_skipped = stats.large_subnets_skipped
         /\ num_addresses(subnet) = Pow2(32 - subnet.prefixlen)
         /\ unique_ips \subseteq unique_ips'
         /\ \A ip \in unique_ips' \ unique_ips : InSubnet(ip, subnet)
         /\ Cardinality({ip \in unique_ips' : InSubnet(ip, subnet)})
              = num_addresses(subnet)
         /\ \E unbatched \in {expand_unbatched(unique_ips, subnet)} :
               /\ unique_ips' = unbatched
               /\ expand_batched(unique_ips, subnet, 0) = unbatched]_vars

\* A subnet of two batches has been expanded into a store that held an
\* address already, after the confirmation was accepted.
C2_Witness ==
  /\ Cardinality(unique_ips) >= batch_size
  /\ stats.valid_subnets = 2
  /\ prompts # <<>>
  /\ prompts[Len(prompts)]

(* C3: Confirm.ask is called only for a valid IPv4 subnet of more than 1000
   addresses while expand_all is false; when the confirmation is declined
   the store is unchanged, large_subnets_skipped grows by exactly 1 and
   valid_subnets is not incremented. *)
C3_ConfirmationGating ==
  [][/\ prompts' # prompts => Asked /\ SubSeq(prompts', 1, Len(prompts)) = prompts
     /\ Asked =>
          /\ LineStep
          /\ HasSlash(line')
          /\ \E subnet \in {IPv4Network(line')} :
                subnet # NoNet /\ num_addresses(subnet) > large_subnet_limit
          /\ ~expand_all
     /\ (Asked /\ ~prompts'[Len(prompts')]) =>
          /\ unique_ips' = unique_ips
          /\ invalid_entries' = invalid_entries
          /\ stats' = [stats EXCEPT !.lines_processed = @ + 1,
                                    !.large_subnets_skipped = @ + 1]]_vars

\* A large subnet has been declined while the store held addresses.
C3_Witness ==
  /\ stats.large_subnets_skipped >= 1
  /\ unique_ips # {}
  /\ \E i \in 1..Len(prompts) : ~prompts[i]

====
